---- MODULE Spec2Model ----
(***************************************************************************)
(* Model of sysmon.py: a terminal system monitor that samples /proc        *)
(* counters once per second, derives rates from consecutive snapshots and  *)
(* redraws one status line.                                                *)
(*                                                                         *)
(* Text is modelled as sequences of one-character strings; Python floats   *)
(* are modelled as exact rationals in lowest terms (the scalings by        *)
(* 1024 and 1024**2 are exact in binary floating point; the CPU and gauge  *)
(* quotients are exact up to the float's rounding, which does not change   *)
(* their sign or whether they are zero for the magnitudes modelled).       *)
(***************************************************************************)
EXTENDS Integers, Sequences, FiniteSets, TLC

VARIABLES
    pc,       \* position of the main thread in main()
    handler,  \* TRUE once signal.signal(SIGINT, handle_sigint) has run
    prev,     \* the module-global `prev` (None or a Prev record)
    seed,     \* main()'s locals idle0, total0, rd0, wr0 of the seeding reads
    tick,     \* the loop body's locals of the current iteration
    slept,    \* TRUE iff a time.sleep(1) completed since `prev` was last assigned
    iter,     \* number of loop iterations started
    out,      \* what was written to standard output: "line" and "nl" events
    status,   \* process exit status (None while running)
    err,      \* the exception that ended the process (None if none)
    sigAt,    \* the pc at which SIGINT was delivered (None if never)
    fin,      \* input of the function under test (parser specifications)
    fout      \* its result

vars == <<pc, handler, prev, seed, tick, slept, iter, out, status, err, sigAt, fin, fout>>

\* Python's None for the record-valued variables: the record with no fields.
None == [x \in {} |-> 0]

\* The exit status while the process has not exited.
Running == -1

----------------------------------------------------------------------------
(* Text helpers: Python str operations on sequences of characters.         *)

Digits == <<"0", "1", "2", "3", "4", "5", "6", "7", "8", "9">>

IsDigit(c) == \E i \in 1..10 : Digits[i] = c

DigitVal(c) == (CHOOSE i \in 1..10 : Digits[i] = c) - 1

IsSpace(c) == c \in {" ", "\t", "\n"}

RECURSIVE NatToStr(_)
NatToStr(n) ==
    IF n < 10 THEN <<Digits[n + 1]>>
    ELSE NatToStr(n \div 10) \o <<Digits[(n % 10) + 1]>>

IntToStr(n) == IF n < 0 THEN <<"-">> \o NatToStr(-n) ELSE NatToStr(n)

RECURSIVE DigitsVal(_, _)
DigitsVal(s, acc) ==
    IF s = <<>> THEN acc ELSE DigitsVal(Tail(s), acc * 10 + DigitVal(Head(s)))

\* A value returned normally, and an exception raised instead of a value.
Ok(v) == [exc |-> "none", val |-> v]

Raise(e) == [exc |-> e]

IsOk(r) == r.exc = "none"

\* int(s) for a whitespace-free token: an optional sign and decimal digits.
PyInt(s) ==
    LET body == IF s # <<>> /\ Head(s) \in {"-", "+"} THEN Tail(s) ELSE s
    IN  IF body = <<>> \/ \E i \in 1..Len(body) : ~IsDigit(body[i])
        THEN Raise("ValueError")
        ELSE IF Head(s) = "-" THEN Ok(-DigitsVal(body, 0))
             ELSE Ok(DigitsVal(body, 0))

\* s.split(): the maximal runs of non-whitespace characters.
RECURSIVE SplitFrom(_, _, _, _)
SplitFrom(s, i, cur, acc) ==
    IF i > Len(s) THEN (IF cur = <<>> THEN acc ELSE Append(acc, cur))
    ELSE IF IsSpace(s[i])
         THEN SplitFrom(s, i + 1, <<>>, IF cur = <<>> THEN acc ELSE Append(acc, cur))
         ELSE SplitFrom(s, i + 1, Append(cur, s[i]), acc)

PySplit(s) == SplitFrom(s, 1, <<>>, <<>>)

\* s.split(':', 1): at most one cut, at the first colon.
PySplitColon(s) ==
    IF \E i \in 1..Len(s) : s[i] = ":"
    THEN LET k == CHOOSE i \in 1..Len(s) : s[i] = ":" /\ \A j \in 1..(i - 1) : s[j] # ":"
         IN  <<SubSeq(s, 1, k - 1), SubSeq(s, k + 1, Len(s))>>
    ELSE <<s>>

\* s.strip()
RECURSIVE LStrip(_)
LStrip(s) == IF s # <<>> /\ IsSpace(Head(s)) THEN LStrip(Tail(s)) ELSE s

RECURSIVE RStrip(_)
RStrip(s) ==
    IF s # <<>> /\ IsSpace(s[Len(s)]) THEN RStrip(SubSeq(s, 1, Len(s) - 1)) ELSE s

\* PyStrip left out: the interface name keeps the blanks before it.
NoStrip(s) == s

PyStrip(s) == RStrip(LStrip(s))

\* s.startswith(p)
StartsWith(s, p) == Len(s) >= Len(p) /\ SubSeq(s, 1, Len(p)) = p

\* s[a:b] for a list or string, 0-based, with Python's negative and clamped indices.
PyIndex(n, len) ==
    IF n < 0 THEN (IF len + n < 0 THEN 0 ELSE len + n)
    ELSE IF n > len THEN len ELSE n

PySlice(s, a, b) == SubSeq(s, PyIndex(a, Len(s)) + 1, PyIndex(b, Len(s)))

\* xs[i] for a list, 0-based, non-negative i.
PyItem(xs, i) == IF i < Len(xs) THEN Ok(xs[i + 1]) ELSE Raise("IndexError")

\* list(map(int, toks)): the first failing conversion raises.
RECURSIVE MapInt(_)
MapInt(toks) ==
    IF toks = <<>> THEN Ok(<<>>)
    ELSE LET h == PyInt(Head(toks))
         IN  IF ~IsOk(h) THEN h
             ELSE LET t == MapInt(Tail(toks))
                  IN  IF ~IsOk(t) THEN t ELSE Ok(<<h.val>> \o t.val)

RECURSIVE Sum(_)
Sum(xs) == IF xs = <<>> THEN 0 ELSE Head(xs) + Sum(Tail(xs))

----------------------------------------------------------------------------
(* Rationals in lowest terms with a positive denominator: the values of    *)
(* Python's float expressions.                                             *)

Abs(n) == IF n < 0 THEN -n ELSE n

RECURSIVE Gcd(_, _)
Gcd(a, b) == IF b = 0 THEN a ELSE Gcd(b, a % b)

Rat(n, d) ==
    LET g == Gcd(Abs(n), Abs(d))
        s == IF d < 0 THEN -1 ELSE 1
    IN  [num |-> s * (n \div g), den |-> s * (d \div g)]

RatInt(n) == [num |-> n, den |-> 1]

RatSub(a, b) == Rat(a.num * b.den - b.num * a.den, a.den * b.den)

RatMulInt(a, k) == Rat(a.num * k, a.den)

\* a / b (true division): ZeroDivisionError when b is zero.
PyTrueDiv(a, b) == IF b = 0 THEN Raise("ZeroDivisionError") ELSE Ok(Rat(a, b))

----------------------------------------------------------------------------
(* The host's counter interfaces.  A file is NoFile (open() raises) or     *)
(* File(lines), the sequence of its lines; statvfs is a record of fields.  *)

NoFile == [errno |-> "ENOENT"]

File(lines) == [lines |-> lines]

SectorSize == 512

KB == 1024

\* f.readline() on the k-th call: the k-th line, or '' at end of file.
ReadLine(file, k) == IF k <= Len(file.lines) THEN file.lines[k] ELSE <<>>

\* read_cpu_times(): (idle, total) from the first line of /proc/stat.
read_cpu_times(file) ==
    IF file = NoFile THEN Raise("FileNotFoundError")
    ELSE LET fields == PySplit(ReadLine(file, 1))
             vals   == MapInt(PySlice(fields, 1, 8))
         IN  IF ~IsOk(vals) THEN vals
             ELSE LET idle == PyItem(vals.val, 3)
                  IN  IF ~IsOk(idle) THEN idle
                      ELSE Ok(<<idle.val, Sum(vals.val)>>)

\* int(line.split()[1])
SecondFieldInt(line) ==
    LET f == PyItem(PySplit(line), 1)
    IN  IF ~IsOk(f) THEN f ELSE PyInt(f.val)

\* read_mem_percent(): used * 100.0 / total from the first two lines of /proc/meminfo.
read_mem_percent(file) ==
    IF file = NoFile THEN Raise("FileNotFoundError")
    ELSE LET total == SecondFieldInt(ReadLine(file, 1))
             free  == SecondFieldInt(ReadLine(file, 2))
         IN  IF ~IsOk(total) THEN total
             ELSE IF ~IsOk(free) THEN free
             ELSE PyTrueDiv((total.val - free.val) * 100, total.val)

\* read_disk_usage_percent('/'): used * 100.0 / total from os.statvfs.
read_disk_usage_percent(st) ==
    LET used  == (st.f_blocks - st.f_bfree) * st.f_frsize
        total == st.f_blocks * st.f_frsize
    IN  PyTrueDiv(used * 100, total)

DiskPrefixes == {<<"s", "d">>, <<"n", "v", "m", "e">>, <<"h", "d">>}

\* IsBlockDevice without the allow-list: every device counts.
IsAnyDevice(name) == TRUE

\* name.startswith(('sd', 'nvme', 'hd'))
IsBlockDevice(name) == \E p \in DiskPrefixes : StartsWith(name, p)

\* int(parts[i])
FieldInt(parts, i) ==
    LET f == PyItem(parts, i)
    IN  IF ~IsOk(f) THEN f ELSE PyInt(f.val)

\* The body of read_disk_io's loop over the lines from the k-th on.
RECURSIVE DiskLoop(_, _, _, _)
DiskLoop(lines, k, rs, ws) ==
    IF k > Len(lines) THEN Ok(<<rs, ws>>)
    ELSE LET parts == PySplit(lines[k])
             name  == PyItem(parts, 2)
         IN  IF ~IsOk(name) THEN name
             ELSE IF ~IsBlockDevice(name.val) THEN DiskLoop(lines, k + 1, rs, ws)
             ELSE LET r == FieldInt(parts, 5)
                  IN  IF ~IsOk(r) THEN r
                      ELSE LET w == FieldInt(parts, 9)
                           IN  IF ~IsOk(w) THEN w
                               ELSE DiskLoop(lines, k + 1, rs + r.val, ws + w.val)

\* The conversion of a sector count on read_disk_io's return line.
SectorsToMB(sectors) == Rat(sectors * SectorSize, KB * KB)

\* read_disk_io(): (read MB, written MB) summed over the block devices of /proc/diskstats.
read_disk_io(file) ==
    IF file = NoFile THEN Raise("FileNotFoundError")
    ELSE LET sums == DiskLoop(file.lines, 1, 0, 0)
         IN  IF ~IsOk(sums) THEN sums
             ELSE Ok(<<SectorsToMB(sums.val[1]), SectorsToMB(sums.val[2])>>)

\* The body of read_net_dev's loop over the lines from the k-th on.
RECURSIVE NetLoop(_, _, _, _)
NetLoop(lines, k, rx, tx) ==
    IF k > Len(lines) THEN Ok(<<rx, tx>>)
    ELSE LET pair == PySplitColon(lines[k])
         IN  IF Len(pair) # 2 THEN Raise("ValueError")
             ELSE IF PyStrip(pair[1]) = <<"l", "o">> THEN NetLoop(lines, k + 1, rx, tx)
             ELSE LET vals == MapInt(PySplit(pair[2]))
                  IN  IF ~IsOk(vals) THEN vals
                      ELSE LET r == PyItem(vals.val, 0)
                               t == PyItem(vals.val, 8)
                           IN  IF ~IsOk(r) THEN r
                               ELSE IF ~IsOk(t) THEN t
                               ELSE NetLoop(lines, k + 1, rx + r.val, tx + t.val)

\* read_net_dev(): (received KB, sent KB) summed over the interfaces but lo;
\* the two header lines are read and dropped first.
read_net_dev(file) ==
    IF file = NoFile THEN Raise("FileNotFoundError")
    ELSE LET sums == NetLoop(file.lines, 3, 0, 0)
         IN  IF ~IsOk(sums) THEN sums
             ELSE Ok(<<Rat(sums.val[1], KB), Rat(sums.val[2], KB)>>)

----------------------------------------------------------------------------
(* The status line.                                                        *)

RECURSIVE Pow10(_)
Pow10(k) == IF k = 0 THEN 1 ELSE 10 * Pow10(k - 1)

RECURSIVE Repeat(_, _)
Repeat(c, n) == IF n <= 0 THEN <<>> ELSE <<c>> \o Repeat(c, n - 1)

\* format(x, 'W.Pf'): x rounded half-even to P decimals, a minus sign for a
\* negative x, right-aligned with spaces to at least W characters.
FormatFixed(x, width, prec) ==
    LET n     == Abs(x.num) * Pow10(prec)
        q     == n \div x.den
        r     == n % x.den
        units == IF 2 * r > x.den \/ (2 * r = x.den /\ q % 2 = 1) THEN q + 1 ELSE q
        frac  == NatToStr(units % Pow10(prec))
        body  == (IF x.num < 0 THEN <<"-">> ELSE <<>>)
                 \o NatToStr(units \div Pow10(prec)) \o <<".">>
                 \o Repeat("0", prec - Len(frac)) \o frac
    IN  Repeat(" ", width - Len(body)) \o body

\* The f-string of main(): the seven fields between their fixed labels.  The
\* two arrows are one character each.
FormatLine(cpu_pct, ram_pct, disk_pct, rd_rate, wr_rate, tx_rate, rx_rate) ==
    <<"C", "P", "U", ":">> \o FormatFixed(cpu_pct, 5, 1) \o <<"%", " ">>
    \o <<"R", "A", "M", ":">> \o FormatFixed(ram_pct, 5, 1) \o <<"%", " ">>
    \o <<"D", "I", "S", "K", ":">> \o FormatFixed(disk_pct, 5, 1) \o <<"%", " ">>
    \o <<"I", "/", "O", " ", "R", ":">> \o FormatFixed(rd_rate, 5, 2)
    \o <<"M", "B", "/", "s", " ", "W", ":">> \o FormatFixed(wr_rate, 5, 2)
    \o <<"M", "B", "/", "s", " ">>
    \o <<"N", "E", "T", " ", "<up>">> \o FormatFixed(tx_rate, 6, 2)
    \o <<"K", "B", "/", "s", " ", "<down>">> \o FormatFixed(rx_rate, 6, 2)
    \o <<"K", "B", "/", "s">>

Ellipsis == <<".", ".", ".">>

\* Truncate cutting at the width itself, so that the ellipsis overshoots it.
TruncateAtWidth(line, size) ==
    IF ~IsOk(size) THEN line
    ELSE IF Len(line) > size.val
         THEN PySlice(line, 0, size.val) \o Ellipsis
         ELSE line

\* The try block of main(): size is os.get_terminal_size()'s result, an OSError
\* leaves the line as it is.
Truncate(line, size) ==
    IF ~IsOk(size) THEN line
    ELSE IF Len(line) > size.val
         THEN PySlice(line, 0, size.val - 3) \o Ellipsis
         ELSE line

\* CpuPct without its guard: the quotient is taken whatever d_total is.
CpuPctUnguarded(d_idle, d_total) ==
    LET q == PyTrueDiv(d_idle, d_total)
    IN  IF ~IsOk(q) THEN q
        ELSE Ok(RatMulInt(RatSub(RatInt(1), q.val), 100))

\* cpu_pct of main(): the guarded quotient.
CpuPct(d_idle, d_total) ==
    IF d_total # 0
    THEN LET q == PyTrueDiv(d_idle, d_total)
         IN  IF ~IsOk(q) THEN q
             ELSE Ok(RatMulInt(RatSub(RatInt(1), q.val), 100))
    ELSE Ok(RatInt(0))

----------------------------------------------------------------------------
(* What the host can show the sampler at a read.                           *)

\* Largest idle tick count of /proc/stat.
CpuMax == 2

\* Largest number of loop iterations followed.
MaxTicks == 2

RECURSIVE Join(_)
Join(toks) ==
    IF toks = <<>> THEN <<>>
    ELSE IF Len(toks) = 1 THEN Head(toks)
    ELSE Head(toks) \o <<" ">> \o Join(Tail(toks))

\* A line of text as the kernel writes it: fields, blanks between, a newline.
TextLine(toks) == Join(toks) \o <<"\n">>

RECURSIVE NatToks(_)
NatToks(ns) == IF ns = <<>> THEN <<>> ELSE <<NatToStr(Head(ns))>> \o NatToks(Tail(ns))

\* /proc/stat's first line: cpu user nice system idle iowait irq softirq steal guest guest_nice
CpuLine(user, idle) ==
    TextLine(<<<<"c", "p", "u">>>> \o NatToks(<<user, 0, 0, idle, 0, 0, 0, 0, 0, 0>>))

CpuFiles ==
    {File(<<CpuLine(u, i)>>) : u \in {0, 1}, i \in 0..CpuMax}
    \cup {File(<<TextLine(<<<<"c", "p", "u">>, <<"1">>, <<"2">>>>)>>), File(<<>>), NoFile}

MemLine(label, kb) == TextLine(<<label, NatToStr(kb), <<"k", "B">>>>)

MemInfo(total, free) ==
    File(<< MemLine(<<"M", "e", "m", "T", "o", "t", "a", "l", ":">>, total),
            MemLine(<<"M", "e", "m", "F", "r", "e", "e", ":">>, free) >>)

MemFiles ==
    { MemInfo(8000000, 2000000), MemInfo(4, 3), MemInfo(0, 0),
      File(<<TextLine(<<<<"M", "e", "m", "T", "o", "t", "a", "l", ":">>>>)>>), NoFile }

StatVfs == { [f_blocks |-> b, f_bfree |-> 1, f_frsize |-> 4096] : b \in {0, 4} }

\* A /proc/diskstats line: major minor name and eleven counters.
DiskLine(name, rd, wr) ==
    TextLine(<<<<"8">>, <<"0">>, name>> \o NatToks(<<7, 0, rd, 3, 9, 0, wr, 5, 0, 8, 8>>))

sda == <<"s", "d", "a">>

loop0 == <<"l", "o", "o", "p", "0">>

DiskFiles ==
    { File(<<DiskLine(sda, 0, 0)>>),
      File(<<DiskLine(loop0, 6, 6), DiskLine(sda, 2, 1)>>),
      File(<<DiskLine(sda, 2, 1), TextLine(<<<<"8">>, <<"1">>>>)>>),
      NoFile }

NetHeader ==
    << TextLine(<<<<"I", "n", "t", "e", "r", "-", "|">>>>),
       TextLine(<<<<"f", "a", "c", "e", "|">>>>) >>

\* A /proc/net/dev line: the interface, a colon and sixteen counters.
NetLine(iface, rx, tx) ==
    <<" ">> \o iface \o <<":">>
    \o TextLine(NatToks(<<rx, 1, 0, 0, 0, 0, 0, 0, tx, 1, 0, 0, 0, 0, 0, 0>>))

lo == <<"l", "o">>

eth0 == <<"e", "t", "h", "0">>

NetFiles ==
    { File(NetHeader \o <<NetLine(lo, 7, 7), NetLine(eth0, 0, 0)>>),
      File(NetHeader \o <<NetLine(lo, 9, 9), NetLine(eth0, 2048, 1024)>>),
      File(NetHeader \o <<NetLine(eth0, 2048, 1024),
                          <<" ">> \o eth0 \o <<":">> \o TextLine(<<<<"5">>>>)>>),
      NoFile }

\* os.get_terminal_size(): a column count, or OSError when stdout is no terminal.
TermSizes == {Raise("OSError")} \cup {Ok(c) : c \in {0, 2, 3, 80, 89, 120}}

----------------------------------------------------------------------------
(* main(): the sampler.                                                    *)

Prev(cpu_idle, cpu_total, disk_read, disk_write, net_rx, net_tx) ==
    [cpu_idle |-> cpu_idle, cpu_total |-> cpu_total,
     disk_read |-> disk_read, disk_write |-> disk_write,
     net_rx |-> net_rx, net_tx |-> net_tx]

NoResult == [exc |-> "pending"]

Init ==
    /\ pc = "start"
    /\ handler = FALSE
    /\ prev = None
    /\ seed = None
    /\ tick = None
    /\ slept = FALSE
    /\ iter = 0
    /\ out = <<>>
    /\ status = Running
    /\ err = None
    /\ sigAt = "None"
    /\ fin = <<>>
    /\ fout = NoResult

\* UncaughtException as if main() caught the exception and left with sys.exit(0).
ExceptionExitsZero(exc, src, input) ==
    /\ pc' = "exited"
    /\ status' = 0
    /\ err' = [exc |-> exc, src |-> src, input |-> input, at |-> pc]
    /\ seed' = None
    /\ tick' = None
    /\ UNCHANGED <<handler, prev, slept, out, sigAt, fin, fout>>

\* An exception no frame of main() catches: the interpreter prints the traceback
\* on standard error and exits with status 1.  The exception keeps the function
\* that raised it and what that function had read; main()'s locals end with it.
UncaughtException(exc, src, input) ==
    /\ pc' = "exited"
    /\ status' = 1
    /\ err' = [exc |-> exc, src |-> src, input |-> input, at |-> pc]
    /\ seed' = None
    /\ tick' = None
    /\ UNCHANGED <<handler, prev, slept, out, sigAt, fin, fout>>

\* signal.signal(signal.SIGINT, handle_sigint)
InstallHandler ==
    /\ pc = "start"
    /\ handler' = TRUE
    /\ pc' = "seed_cpu"
    /\ UNCHANGED <<prev, seed, tick, slept, iter, out, status, err, sigAt, fin, fout>>

\* idle0, total0 = read_cpu_times()
SeedCpu ==
    /\ pc = "seed_cpu"
    /\ \E f \in CpuFiles :
         LET r == read_cpu_times(f)
         IN  IF IsOk(r)
             THEN /\ seed' = seed @@ [idle0 |-> r.val[1], total0 |-> r.val[2]]
                  /\ pc' = "seed_disk"
                  /\ UNCHANGED <<handler, prev, tick, slept, iter, out, status, err,
                                 sigAt, fin, fout>>
             ELSE UncaughtException(r.exc, "read_cpu_times", f) /\ UNCHANGED iter

\* rd0, wr0 = read_disk_io()
SeedDisk ==
    /\ pc = "seed_disk"
    /\ \E f \in DiskFiles :
         LET r == read_disk_io(f)
         IN  IF IsOk(r)
             THEN /\ seed' = seed @@ [rd0 |-> r.val[1], wr0 |-> r.val[2]]
                  /\ pc' = "seed_net"
                  /\ UNCHANGED <<handler, prev, tick, slept, iter, out, status, err,
                                 sigAt, fin, fout>>
             ELSE UncaughtException(r.exc, "read_disk_io", f) /\ UNCHANGED iter

\* rx0, tx0 = read_net_dev(); prev = Prev(idle0, total0, rd0, wr0, rx0, tx0)
SeedNet ==
    /\ pc = "seed_net"
    /\ \E f \in NetFiles :
         LET r == read_net_dev(f)
         IN  IF IsOk(r)
             THEN /\ prev' = Prev(seed.idle0, seed.total0, seed.rd0, seed.wr0,
                                  r.val[1], r.val[2])
                  /\ slept' = FALSE
                  /\ seed' = None
                  /\ pc' = "tick_cpu"
                  /\ UNCHANGED <<handler, tick, iter, out, status, err, sigAt, fin, fout>>
             ELSE UncaughtException(r.exc, "read_net_dev", f) /\ UNCHANGED iter

\* The top of the loop body: idle1, total1 = read_cpu_times(); d_idle, d_total
\* and cpu_pct.  tick.slept keeps whether a sleep separates this snapshot from
\* the one in prev.
TickCpu ==
    /\ pc = "tick_cpu"
    /\ iter < MaxTicks
    /\ iter' = iter + 1
    /\ \E f \in CpuFiles :
         LET r == read_cpu_times(f)
         IN  IF IsOk(r)
             THEN LET d_idle  == r.val[1] - prev.cpu_idle
                      d_total == r.val[2] - prev.cpu_total
                      pct     == CpuPct(d_idle, d_total)
                  IN  IF IsOk(pct)
                      THEN /\ tick' = [idle1 |-> r.val[1], total1 |-> r.val[2],
                                       d_idle |-> d_idle, d_total |-> d_total,
                                       cpu_pct |-> pct.val, slept |-> slept]
                           /\ pc' = "tick_mem"
                           /\ UNCHANGED <<handler, prev, seed, slept, out, status, err,
                                          sigAt, fin, fout>>
                      ELSE UncaughtException(pct.exc, "main", <<d_idle, d_total>>)
             ELSE UncaughtException(r.exc, "read_cpu_times", f)

\* ram_pct = read_mem_percent()
TickMem ==
    /\ pc = "tick_mem"
    /\ \E f \in MemFiles :
         LET r == read_mem_percent(f)
         IN  IF IsOk(r)
             THEN /\ tick' = tick @@ [ram_pct |-> r.val]
                  /\ pc' = "tick_disk_usage"
                  /\ UNCHANGED <<handler, prev, seed, slept, iter, out, status, err,
                                 sigAt, fin, fout>>
             ELSE UncaughtException(r.exc, "read_mem_percent", f) /\ UNCHANGED iter

\* disk_pct = read_disk_usage_percent('/')
TickDiskUsage ==
    /\ pc = "tick_disk_usage"
    /\ \E st \in StatVfs :
         LET r == read_disk_usage_percent(st)
         IN  IF IsOk(r)
             THEN /\ tick' = tick @@ [disk_pct |-> r.val]
                  /\ pc' = "tick_disk_io"
                  /\ UNCHANGED <<handler, prev, seed, slept, iter, out, status, err,
                                 sigAt, fin, fout>>
             ELSE UncaughtException(r.exc, "read_disk_usage_percent", st)
                  /\ UNCHANGED iter

\* rd1, wr1 = read_disk_io(); rd_rate and wr_rate
TickDiskIO ==
    /\ pc = "tick_disk_io"
    /\ \E f \in DiskFiles :
         LET r == read_disk_io(f)
         IN  IF IsOk(r)
             THEN /\ tick' = tick @@ [rd1 |-> r.val[1], wr1 |-> r.val[2],
                                      rd_rate |-> RatSub(r.val[1], prev.disk_read),
                                      wr_rate |-> RatSub(r.val[2], prev.disk_write)]
                  /\ pc' = "tick_net"
                  /\ UNCHANGED <<handler, prev, seed, slept, iter, out, status, err,
                                 sigAt, fin, fout>>
             ELSE UncaughtException(r.exc, "read_disk_io", f) /\ UNCHANGED iter

\* rx1, tx1 = read_net_dev(); rx_rate and tx_rate
TickNet ==
    /\ pc = "tick_net"
    /\ \E f \in NetFiles :
         LET r == read_net_dev(f)
         IN  IF IsOk(r)
             THEN /\ tick' = tick @@ [rx1 |-> r.val[1], tx1 |-> r.val[2],
                                      rx_rate |-> RatSub(r.val[1], prev.net_rx),
                                      tx_rate |-> RatSub(r.val[2], prev.net_tx)]
                  /\ pc' = "update_prev"
                  /\ UNCHANGED <<handler, prev, seed, slept, iter, out, status, err,
                                 sigAt, fin, fout>>
             ELSE UncaughtException(r.exc, "read_net_dev", f) /\ UNCHANGED iter

\* prev replaced field by field, the network counters left at their old values.
UpdatePrevKeepsNet ==
    /\ pc = "update_prev"
    /\ prev' = Prev(tick.idle1, tick.total1, tick.rd1, tick.wr1, prev.net_rx, prev.net_tx)
    /\ slept' = FALSE
    /\ pc' = "build_line"
    /\ UNCHANGED <<handler, seed, tick, iter, out, status, err, sigAt, fin, fout>>

\* prev = Prev(idle1, total1, rd1, wr1, rx1, tx1)
UpdatePrev ==
    /\ pc = "update_prev"
    /\ prev' = Prev(tick.idle1, tick.total1, tick.rd1, tick.wr1, tick.rx1, tick.tx1)
    /\ slept' = FALSE
    /\ pc' = "build_line"
    /\ UNCHANGED <<handler, seed, tick, iter, out, status, err, sigAt, fin, fout>>

\* The f-string of main() over the locals t.
FullLineOf(t) ==
    FormatLine(t.cpu_pct, t.ram_pct, t.disk_pct, t.rd_rate, t.wr_rate, t.tx_rate, t.rx_rate)

\* BuildLine without the except clause: an OSError of os.get_terminal_size()
\* ends main().
BuildLineSizeFatal ==
    /\ pc = "build_line"
    /\ \E size \in TermSizes :
         IF IsOk(size)
         THEN /\ tick' = tick @@ [size |-> size, line |-> Truncate(FullLineOf(tick), size)]
              /\ pc' = "print"
              /\ UNCHANGED <<handler, prev, seed, slept, iter, out, status, err, sigAt, fin, fout>>
         ELSE UncaughtException(size.exc, "main", <<>>) /\ UNCHANGED iter

\* line = f"..." and the truncation to the terminal's width
BuildLine ==
    /\ pc = "build_line"
    /\ \E size \in TermSizes :
         LET full == FormatLine(tick.cpu_pct, tick.ram_pct, tick.disk_pct,
                                tick.rd_rate, tick.wr_rate, tick.tx_rate, tick.rx_rate)
         IN  tick' = tick @@ [size |-> size, line |-> Truncate(full, size)]
    /\ pc' = "print"
    /\ UNCHANGED <<handler, prev, seed, slept, iter, out, status, err, sigAt, fin, fout>>

\* print(line, end='\r', flush=True) up to its write: sys.stdout hands the line
\* and the '\r' to its buffer, which writes them out holding its lock and then
\* lets pending signal handlers run before the lock is released.  The locals
\* are not read again before the next iteration assigns them; size alone is
\* kept until print returns, as it tells whether stdout is a terminal.
PrintLine ==
    /\ pc = "print"
    /\ out' = Append(out, "line")
    /\ tick' = [size |-> tick.size]
    /\ pc' = "flush"
    /\ UNCHANGED <<handler, prev, seed, slept, iter, status, err, sigAt, fin, fout>>

\* print(...) returns.
PrintReturn ==
    /\ pc = "flush"
    /\ tick' = None
    /\ pc' = "sleep"
    /\ UNCHANGED <<handler, prev, seed, slept, iter, out, status, err, sigAt, fin, fout>>

\* time.sleep(1) runs to its end
Sleep ==
    /\ pc = "sleep"
    /\ slept' = TRUE
    /\ pc' = "tick_cpu"
    /\ UNCHANGED <<handler, prev, seed, tick, iter, out, status, err, sigAt, fin, fout>>

\* handle_sigint without its print(): the exit leaves the cursor on the status line.
handle_sigint_no_newline ==
    /\ status' = 0
    /\ pc' = "exited"
    /\ sigAt' = pc
    /\ seed' = None
    /\ tick' = None
    /\ UNCHANGED <<handler, prev, slept, iter, out, err, fin, fout>>

\* handle_sigint(sig, frame): print() and sys.exit(0); SystemExit unwinds main()
\* and its locals end with it.
handle_sigint ==
    /\ out' = Append(out, "nl")
    /\ status' = 0
    /\ pc' = "exited"
    /\ sigAt' = pc
    /\ seed' = None
    /\ tick' = None
    /\ UNCHANGED <<handler, prev, slept, iter, err, fin, fout>>

\* handle_sigint(sig, frame) run while main()'s print holds the lock of
\* sys.stdout's buffer: the handler's print() enters the buffer again and raises
\* RuntimeError (reentrant call); sys.exit(0) is not reached, no newline is
\* written, and the exception ends main() as an uncaught one.
handle_sigint_reentrant ==
    /\ status' = 1
    /\ pc' = "exited"
    /\ err' = [exc |-> "RuntimeError", src |-> "handle_sigint", input |-> <<>>,
               at |-> pc]
    /\ sigAt' = pc
    /\ seed' = None
    /\ tick' = None
    /\ UNCHANGED <<handler, prev, slept, iter, out, fin, fout>>

\* SIGINT arrives while main() runs: the installed handler runs in the main
\* thread at that point; before the handler is installed Python's default one
\* raises KeyboardInterrupt, which ends the process as killed by the signal.
\* Inside print the handler runs under the buffer's lock.  sys.stdout flushes at
\* every line when it is a terminal, which is when os.get_terminal_size() gave
\* a size; otherwise the handler's newline stays in the text layer and the
\* buffer is not entered.
Sigint ==
    /\ pc \in {"start", "seed_cpu", "seed_disk", "seed_net", "tick_cpu", "tick_mem",
               "tick_disk_usage", "tick_disk_io", "tick_net", "update_prev",
               "build_line", "print", "flush", "sleep"}
    /\ IF handler
       THEN IF pc = "flush" /\ IsOk(tick.size)
            THEN handle_sigint_reentrant
            ELSE handle_sigint
       ELSE /\ pc' = "exited"
            /\ status' = 130
            /\ err' = [exc |-> "KeyboardInterrupt", src |-> "main", input |-> <<>>,
                       at |-> pc]
            /\ sigAt' = pc
            /\ seed' = None
            /\ tick' = None
            /\ UNCHANGED <<handler, prev, slept, iter, out, fin, fout>>

Next ==
    \/ InstallHandler
    \/ SeedCpu
    \/ SeedDisk
    \/ SeedNet
    \/ TickCpu
    \/ TickMem
    \/ TickDiskUsage
    \/ TickDiskIO
    \/ TickNet
    \/ UpdatePrev
    \/ BuildLine
    \/ PrintLine
    \/ PrintReturn
    \/ Sleep
    \/ Sigint

Spec == Init /\ [][Next]_vars

\* A step of the program itself: any step but the arrival of a signal, which
\* alone changes sigAt.
Step == sigAt' = sigAt /\ Next

\* The process is scheduled: a statement that can run does run, the reads
\* return and time.sleep(1) ends.  Nothing obliges a signal to arrive.
SpecFair == Spec /\ WF_vars(Step)

----------------------------------------------------------------------------
(* The parsers on their own: the input is drawn at the start and the       *)
(* function is called on it once.                                          *)

\* Largest number of fields after the label on /proc/stat's first line.
MaxCpuFields == 8

\* Largest number of lines of /proc/diskstats.
MaxDiskLines == 3

InitCall(inputs) ==
    /\ pc = "call"
    /\ handler = FALSE
    /\ prev = None
    /\ seed = None
    /\ tick = None
    /\ slept = FALSE
    /\ iter = 0
    /\ out = <<>>
    /\ status = Running
    /\ err = None
    /\ sigAt = "None"
    /\ fin \in inputs
    /\ fout = NoResult

Return(result) ==
    /\ pc = "call"
    /\ fout' = result
    /\ pc' = "returned"
    /\ UNCHANGED <<handler, prev, seed, tick, slept, iter, out, status, err, sigAt, fin>>

\* The sequences of length n over the set S.
RECURSIVE SeqsOfLen(_, _)
SeqsOfLen(S, n) ==
    IF n = 0 THEN {<<>>}
    ELSE {<<x>> \o t : x \in S, t \in SeqsOfLen(S, n - 1)}

SeqsUpTo(S, n) == UNION {SeqsOfLen(S, k) : k \in 0..n}

CpuTokens == {<<"1">>, <<"2">>, <<"x">>}

CpuInputs ==
    {File(<<TextLine(<<<<"c", "p", "u">>>> \o toks)>>) : toks \in SeqsUpTo(CpuTokens, MaxCpuFields)}
    \cup {File(<<>>), NoFile}

CallReadCpu == Return(read_cpu_times(fin))

SpecCpu == InitCall(CpuInputs) /\ [][CallReadCpu]_vars

sdb == <<"s", "d", "b">>

DiskNames == {sda, <<"n", "v", "m", "e", "0", "n", "1">>, <<"h", "d", "a">>, loop0}

\* The lines a /proc/diskstats may hold: whole lines of block and other devices,
\* and lines cut short or with a field that is no number.
DiskLines ==
    {DiskLine(n, 100, 8) : n \in DiskNames} \cup {DiskLine(sdb, 2000, 16)}
    \cup { TextLine(<<<<"8">>, <<"0">>, sda, <<"7">>, <<"0">>, <<"5">>>>),
           TextLine(<<<<"7">>, <<"0">>, loop0, <<"0">>>>),
           TextLine(<<<<"8">>, <<"0">>>>),
           TextLine(<<<<"8">>, <<"0">>, sdb, <<"7">>, <<"0">>, <<"x">>, <<"3">>, <<"9">>,
                      <<"0">>, <<"4">>>>),
           <<"\n">> }

DiskInputs == {File(ls) : ls \in SeqsUpTo(DiskLines, MaxDiskLines)} \cup {NoFile}

CallReadDiskIO == Return(read_disk_io(fin))

SpecDisk == InitCall(DiskInputs) /\ [][CallReadDiskIO]_vars

\* Largest number of interface lines of /proc/net/dev.
MaxNetLines == 3

wlan0 == <<"w", "l", "a", "n", "0">>

\* The lines a /proc/net/dev may hold after its header: whole lines of lo and
\* of other interfaces, a lo line whose counters are no numbers, and lines cut
\* short or without their colon.
NetLines ==
    { NetLine(lo, 7, 7), NetLine(lo, 9, 5),
      NetLine(eth0, 2048, 1024), NetLine(wlan0, 1024, 3072),
      <<" ">> \o lo \o <<":">> \o TextLine(<<<<"x">>>>),
      <<" ">> \o eth0 \o <<":">> \o TextLine(<<<<"5">>>>),
      TextLine(<<eth0, <<"5">>>>),
      <<"\n">> }

NetInputs == {File(NetHeader \o ls) : ls \in SeqsUpTo(NetLines, MaxNetLines)} \cup {NoFile}

CallReadNetDev == Return(read_net_dev(fin))

SpecNet == InitCall(NetInputs) /\ [][CallReadNetDev]_vars

----------------------------------------------------------------------------
(* The claims.                                                             *)

\* The number of metric lines written so far.
Lines(o) == Cardinality({i \in 1..Len(o) : o[i] = "line"})

RatGe(a, b) == RatSub(a, b).num >= 0

\* The line of the current iteration before its truncation.
FullLine ==
    FormatLine(tick.cpu_pct, tick.ram_pct, tick.disk_pct,
               tick.rd_rate, tick.wr_rate, tick.tx_rate, tick.rx_rate)

\* C1: every metric line about to be printed rests on two snapshots with a
\* completed sleep between them, the first line included.
C1_SleepBeforeEverySnapshot == pc = "print" => tick.slept

\* C2: SIGINT delivered during the sleep ends the process with status 0, and the
\* output then ends with the handler's newline: metric lines come only before it.
C2_SigintDuringSleep ==
    (pc = "exited" /\ sigAt = "sleep") =>
        /\ status = 0
        /\ out # <<>>
        /\ out[Len(out)] = "nl"
        /\ \A i \in 1..(Len(out) - 1) : out[i] = "line"

C2_Witness == pc = "exited" /\ sigAt = "sleep" /\ Lines(out) >= 1

\* C3: a CPU total delta of 0 gives a CPU percentage of exactly 0, and the CPU
\* computation never ends the process with a ZeroDivisionError.
C3_ZeroTotalDelta ==
    /\ ("d_total" \in DOMAIN tick /\ tick.d_total = 0) => tick.cpu_pct = RatInt(0)
    /\ ~(pc = "exited" /\ err # None /\ err.src = "main"
         /\ err.exc = "ZeroDivisionError")

C3_Witness == pc = "tick_mem" /\ tick.d_total = 0 /\ tick.d_idle # 0

\* C4: when each of the six counters of the new snapshot is at least its value
\* in prev, every rate of the iteration is non-negative.
C4_MonotoneGivesNonNegativeRates ==
    ( /\ pc = "update_prev"
      /\ tick.idle1 >= prev.cpu_idle
      /\ tick.total1 >= prev.cpu_total
      /\ RatGe(tick.rd1, prev.disk_read)
      /\ RatGe(tick.wr1, prev.disk_write)
      /\ RatGe(tick.rx1, prev.net_rx)
      /\ RatGe(tick.tx1, prev.net_tx) ) =>
        /\ tick.cpu_pct.num >= 0
        /\ tick.rd_rate.num >= 0
        /\ tick.wr_rate.num >= 0
        /\ tick.rx_rate.num >= 0
        /\ tick.tx_rate.num >= 0

\* A /proc/diskstats line with fewer than the ten fields read_disk_io indexes.
ShortDiskLine(line) == Len(PySplit(line)) < 10

\* A /proc/net/dev line without its colon or with fewer than nine counters after it.
ShortNetLine(line) ==
    LET pair == PySplitColon(line)
    IN  Len(pair) < 2 \/ Len(PySplit(pair[2])) < 9

HasShortLine(src, file) ==
    /\ file # NoFile
    /\ IF src = "read_disk_io"
       THEN \E i \in 1..Len(file.lines) : ShortDiskLine(file.lines[i])
       ELSE \E i \in 3..Len(file.lines) : ShortNetLine(file.lines[i])

\* C5: a disk or network statistics line with too few fields is skipped: no
\* read of a file holding such a line ends the process.
C5_ShortLineIsSkipped ==
    (pc = "exited" /\ err # None /\ err.src \in {"read_disk_io", "read_net_dev"}) =>
        ~HasShortLine(err.src, err.input)

\* C6: a gauge whose total is 0 is reported as 0%: neither gauge read ends the
\* process with a ZeroDivisionError.
C6_ZeroTotalGaugeIsZero ==
    (pc = "exited" /\ err # None
     /\ err.src \in {"read_mem_percent", "read_disk_usage_percent"}) =>
        err.exc # "ZeroDivisionError"

\* C7 as stated: for every reported width N, a line longer than N is printed as
\* exactly N characters ending in the ellipsis, and a line of at most N
\* characters is printed unchanged.
C7_TruncationAnyWidth ==
    (pc = "print" /\ IsOk(tick.size)) =>
        LET n == tick.size.val
        IN  /\ Len(FullLine) > n =>
                  /\ Len(tick.line) = n
                  /\ SubSeq(tick.line, Len(tick.line) - 2, Len(tick.line)) = Ellipsis
            /\ Len(FullLine) <= n => tick.line = FullLine

\* C7 amended: the same for every reported width N >= 3 (a line of at most N
\* characters is printed unchanged for every N).
C7_TruncationFromWidth3 ==
    (pc = "print" /\ IsOk(tick.size)) =>
        LET n == tick.size.val
        IN  /\ (Len(FullLine) > n /\ n >= 3) =>
                  /\ Len(tick.line) = n
                  /\ SubSeq(tick.line, Len(tick.line) - 2, Len(tick.line)) = Ellipsis
                  /\ SubSeq(tick.line, 1, n - 3) = SubSeq(FullLine, 1, n - 3)
            /\ Len(FullLine) <= n => tick.line = FullLine

C7_Witness ==
    /\ pc = "print"
    /\ IsOk(tick.size)
    /\ tick.size.val >= 3
    /\ Len(FullLine) > tick.size.val

\* The fields after the label on the first line of /proc/stat.
CpuFieldsOf(file) ==
    IF file = NoFile THEN <<>>
    ELSE LET toks == PySplit(ReadLine(file, 1))
         IN  IF toks = <<>> THEN <<>> ELSE Tail(toks)

IsNumeric(tok) == IsOk(PyInt(tok))

\* C8: read_cpu_times raises when the first seven fields after the label are
\* fewer than seven or not all numeric, and otherwise returns the fourth field
\* as idle and the sum of the seven as total.
C8_CpuLineNeedsSevenFields ==
    pc = "returned" =>
        LET fields == CpuFieldsOf(fin)
            seven  == SubSeq(fields, 1, IF Len(fields) < 7 THEN Len(fields) ELSE 7)
        IN  IF Len(seven) < 7 \/ \E i \in 1..Len(seven) : ~IsNumeric(seven[i])
            THEN ~IsOk(fout)
            ELSE /\ IsOk(fout)
                 /\ fout.val[1] = PyInt(seven[4]).val
                 /\ fout.val[2] = Sum([i \in 1..7 |-> PyInt(seven[i]).val])

\* C9: a CPU or memory read that fails inside an iteration ends the process with
\* a non-zero status, and the metric lines written are those of the iterations
\* before it: none for the failing iteration, none after.
C9_MandatoryReadFailure ==
    (pc = "exited" /\ err # None
     /\ err.src \in {"read_cpu_times", "read_mem_percent"}
     /\ err.at \in {"tick_cpu", "tick_mem"}) =>
        /\ status = 1
        /\ Len(out) = iter - 1
        /\ \A i \in 1..Len(out) : out[i] = "line"

C9_Witness ==
    /\ pc = "exited"
    /\ err # None
    /\ err.src = "read_mem_percent"
    /\ err.at = "tick_mem"
    /\ iter = 2

\* The device name of a /proc/diskstats line is on the allow-list.
OnAllowList(line) ==
    LET parts == PySplit(line)
    IN  /\ Len(parts) >= 3
        /\ \E p \in {<<"s", "d">>, <<"h", "d">>, <<"n", "v", "m", "e">>} :
             /\ Len(parts[3]) >= Len(p)
             /\ \A i \in 1..Len(p) : parts[3][i] = p[i]

\* The sum of the col-th field (1-based) over the allow-listed lines.
RECURSIVE AllowListedSum(_, _)
AllowListedSum(lines, col) ==
    IF lines = <<>> THEN 0
    ELSE (IF OnAllowList(Head(lines)) THEN PyInt(PySplit(Head(lines))[col]).val ELSE 0)
         + AllowListedSum(Tail(lines), col)

\* C10 as stated: read_disk_io returns the read and write sectors of the
\* allow-listed devices as byte counts, 512 bytes a sector.
C10_DiskSumsInBytes ==
    (pc = "returned" /\ IsOk(fout)) =>
        /\ fout.val[1] = RatInt(AllowListedSum(fin.lines, 6) * 512)
        /\ fout.val[2] = RatInt(AllowListedSum(fin.lines, 10) * 512)

\* C10 amended: whenever read_disk_io returns, it returns the read and write
\* sectors of the allow-listed devices, and of no other line, as megabytes:
\* sectors * 512 / 1024**2.
C10_DiskSumsInMB ==
    (pc = "returned" /\ IsOk(fout)) =>
        /\ fout.val[1] = Rat(AllowListedSum(fin.lines, 6) * 512, 1048576)
        /\ fout.val[2] = Rat(AllowListedSum(fin.lines, 10) * 512, 1048576)

\* The example of the claim: loop0 beside two sd devices with 100 and 2000 read sectors.
C10_Witness ==
    /\ pc = "returned"
    /\ IsOk(fout)
    /\ fin = File(<<DiskLine(loop0, 100, 8), DiskLine(sda, 100, 8), DiskLine(sdb, 2000, 16)>>)
    /\ fout.val[1] = Rat(2100 * 512, 1048576)

\* The interface name of a /proc/net/dev line: what stands before its colon.
IfaceOf(line) ==
    LET k == CHOOSE i \in 1..Len(line) : line[i] = ":" /\ \A j \in 1..(i - 1) : line[j] # ":"
    IN  PySplit(SubSeq(line, 1, k - 1))

HasColon(line) == \E i \in 1..Len(line) : line[i] = ":"

IsLoLine(line) == HasColon(line) /\ IfaceOf(line) = <<lo>>

\* The lines of a sequence that are not lo's, in their order.
RECURSIVE WithoutLo(_)
WithoutLo(lines) ==
    IF lines = <<>> THEN <<>>
    ELSE (IF IsLoLine(Head(lines)) THEN <<>> ELSE <<Head(lines)>>)
         \o WithoutLo(Tail(lines))

\* The col-th counter (1-based) after the colon, summed over the lines.
RECURSIVE CounterSum(_, _)
CounterSum(lines, col) ==
    IF lines = <<>> THEN 0
    ELSE LET line == Head(lines)
             k    == CHOOSE i \in 1..Len(line) : line[i] = ":"
         IN  PyInt(PySplit(SubSeq(line, k + 1, Len(line)))[col]).val
             + CounterSum(Tail(lines), col)

\* C11: what read_net_dev does is what it does on the file without its lo
\* lines, whatever stands on them, and a result returned is the received (1st)
\* and transmitted (9th) counters summed over every other interface, in KB.
C11_LoIsExcluded ==
    pc = "returned" /\ fin # NoFile =>
        LET body  == SubSeq(fin.lines, 3, Len(fin.lines))
            other == WithoutLo(body)
        IN  /\ fout = read_net_dev(File(NetHeader \o other))
            /\ IsOk(fout) =>
                  /\ fout.val[1] = Rat(CounterSum(other, 1), 1024)
                  /\ fout.val[2] = Rat(CounterSum(other, 9), 1024)

\* Two interfaces between a whole lo line and a lo line that holds no numbers.
C11_Witness ==
    /\ pc = "returned"
    /\ IsOk(fout)
    /\ fin = File(NetHeader \o << NetLine(lo, 7, 7), NetLine(eth0, 2048, 1024),
                                  <<" ">> \o lo \o <<":">> \o TextLine(<<<<"x">>>>) >>)
    /\ fout.val = <<RatInt(2), RatInt(1)>>

\* C12: a disk or network counter that is lower in the new snapshot than in
\* prev gives a rate of 0 for the iteration, never a negative one.
C12_RolledBackCounterGivesZeroRate ==
    pc = "update_prev" =>
        /\ ~RatGe(tick.rd1, prev.disk_read)  => tick.rd_rate = RatInt(0)
        /\ ~RatGe(tick.wr1, prev.disk_write) => tick.wr_rate = RatInt(0)
        /\ ~RatGe(tick.rx1, prev.net_rx)     => tick.rx_rate = RatInt(0)
        /\ ~RatGe(tick.tx1, prev.net_tx)     => tick.tx_rate = RatInt(0)

\* The values main derives from a snapshot and prev.
DerivedFields == {"d_idle", "d_total", "cpu_pct", "rd_rate", "wr_rate", "rx_rate", "tx_rate"}

\* C13: while a source read of the iteration is still to come, no delta, rate
\* or CPU percentage of the iteration has been computed.
C13_ReadsBeforeDerivedValues ==
    pc \in {"tick_mem", "tick_disk_usage", "tick_disk_io", "tick_net"} =>
        DOMAIN tick \cap DerivedFields = {}

\* The snapshot of the current iteration as a whole record.
TickSnapshot == Prev(tick.idle1, tick.total1, tick.rd1, tick.wr1, tick.rx1, tick.tx1)

\* C14: prev changes in two places only.  The seed sets it once, from None, to
\* a six-field record of the seed reads.  Each iteration replaces it once, by
\* the whole record of its own reads, after every delta of the iteration was
\* taken against the old prev, so that a line is built and printed with prev
\* already holding its snapshot.  No exit changes prev.
C14_PrevReplacedWholeOncePerTick ==
    [][ /\ prev' # prev => pc \in {"seed_net", "update_prev"} /\ pc' # "exited"
        /\ (pc = "seed_net" /\ pc' = "tick_cpu") =>
              /\ prev = None
              /\ DOMAIN prev' = {"cpu_idle", "cpu_total", "disk_read",
                                 "disk_write", "net_rx", "net_tx"}
              /\ prev'.cpu_idle = seed.idle0 /\ prev'.cpu_total = seed.total0
              /\ prev'.disk_read = seed.rd0 /\ prev'.disk_write = seed.wr0
        /\ (pc = "update_prev" /\ pc' = "build_line") =>
              /\ prev' = TickSnapshot
              /\ tick.d_idle = tick.idle1 - prev.cpu_idle
              /\ tick.d_total = tick.total1 - prev.cpu_total
              /\ tick.rd_rate = RatSub(tick.rd1, prev.disk_read)
              /\ tick.wr_rate = RatSub(tick.wr1, prev.disk_write)
              /\ tick.rx_rate = RatSub(tick.rx1, prev.net_rx)
              /\ tick.tx_rate = RatSub(tick.tx1, prev.net_tx)
        /\ pc \in {"build_line", "print"} => prev = TickSnapshot
        /\ pc' = "exited" => prev' = prev
      ]_vars

\* The second iteration ends on a failed network read, after the first one
\* replaced the seed's prev by its own snapshot.
C14_Witness ==
    /\ pc = "exited" /\ status = 1
    /\ err.at = "tick_net" /\ iter = 2
    /\ prev # None
    /\ prev.net_rx = RatInt(2) /\ prev.cpu_total = 2

\* C15: a SIGINT that arrives once the handler is installed ends the process
\* with status 0, and what was written is whole lines followed by the
\* handler's newline and nothing else.
C15_SigintExitsZeroAfterWholeLines ==
    (pc = "exited" /\ sigAt \notin {"None", "start"}) =>
        /\ status = 0
        /\ Len(out) >= 1
        /\ out[Len(out)] = "nl"
        /\ \A i \in 1..(Len(out) - 1) : out[i] = "line"

\* The functions that read a source.
SourceReads == {"read_cpu_times", "read_mem_percent", "read_disk_usage_percent",
                "read_disk_io", "read_net_dev"}

ExitedOnReadError == pc = "exited" /\ err # None /\ err.src \in SourceReads

ExitedOnSignal == pc = "exited" /\ sigAt # "None"

\* C16: the loop has no exit of its own.  The process ends only through a
\* signal or through an exception raised by a source read; the lines written
\* are as many as the iterations that got past their print; a terminal size
\* that cannot be had leaves the line whole; and a run that neither a signal
\* nor a read error ends goes through all MaxTicks iterations and is back at
\* the top of the loop with MaxTicks lines written.
C16_LoopNeverStopsOnItsOwn ==
    /\ [](pc = "exited" => ExitedOnSignal \/ ExitedOnReadError)
    /\ [](pc \in {"tick_cpu", "flush", "sleep"} => Lines(out) = iter)
    /\ [](pc \in {"tick_mem", "tick_disk_usage", "tick_disk_io", "tick_net",
                  "update_prev", "build_line", "print"} => Lines(out) = iter - 1)
    /\ [](pc = "print" /\ ~IsOk(tick.size) => tick.line = FullLine)
    /\ <>(\/ pc = "tick_cpu" /\ iter = MaxTicks /\ Lines(out) = MaxTicks
          \/ ExitedOnSignal
          \/ ExitedOnReadError)

\* The second line is being written without a terminal size, no signal so far.
C16_Witness ==
    /\ pc = "flush"
    /\ iter = 2 /\ Lines(out) = 2
    /\ tick.size = Raise("OSError")
    /\ sigAt = "None"

====
